---- MODULE Spec2Model ----
(***************************************************************************)
(* Model of src/main.py: the permission template generator.                *)
(*                                                                         *)
(*   main  =  validate inputs -> analyze_directory_permissions             *)
(*            -> render_template -> write_output                           *)
(*                                                                         *)
(* The collaborators that live outside src/ (the filesystem, pathspec,     *)
(* jinja2, json / yaml) are the environment: what they answer is chosen    *)
(* from small sets at the moment the code asks them.                       *)
(***************************************************************************)
EXTENDS Integers, Sequences, FiniteSets, TLC

(* ------------------------------ bounds --------------------------------- *)

\* Largest number of files the walked tree holds.
MaxFiles == 3
\* Largest number of --exclude-patterns given on the command line.
MaxPatterns == 2
\* Number of chunks the serializer writes to the open file.
NChunks == 2
\* Number of special/type-bit combinations added on top of the 9 mode bits.
MaxHighBits == 3

(* ------------------------- stat mode constants ------------------------- *)

S_IRUSR == 256
S_IWUSR == 128
S_IXUSR == 64
S_IRGRP == 32
S_IWGRP == 16
S_IXGRP == 8
S_IROTH == 4
S_IWOTH == 2
S_IXOTH == 1
S_ISUID == 2048
S_ISGID == 1024
S_ISVTX == 512
S_IFREG == 32768
S_IFDIR == 16384

\* bool(st_mode & mask) for a single-bit mask
BitSet(mode, mask) == (mode \div mask) % 2 = 1

VARIABLES
  pc,            \* position of main: start, scan, render, write, exited
  argPatterns,   \* args.exclude_patterns
  argFormat,     \* args.output_format
  outFile,       \* the file at args.output_file
  outFile0,      \* that file when the run started
  dirState,      \* what the filesystem answers about args.source_dir
  registered,    \* whether pathspec resolves the factory name of line 118
  tree,          \* the files os.walk yields, in traversal order
  statFail,      \* the paths on which os.stat raises OSError
  scanInvoked,   \* analyze_directory_permissions was called
  scanReturned,  \* ... and returned a list
  records,       \* permissions_data
  statted,       \* the paths get_file_permissions was called on
  readErrLogged, \* the paths whose read failure was logged (line 98)
  log,           \* the diagnostics logged so far
  renderInvoked, \* render_template was called
  renderArg,     \* the list bound to `files` in that call
  rendered,      \* rendered_template
  writeInvoked,  \* write_output was called
  opened,        \* write_output opened the output file for writing
  yamlInstalled, \* whether `import yaml` succeeded in write_output
  exitStatus,    \* the process exit status (-1 while running)
  crashed,       \* the run ended in an uncaught exception
  st_mode,       \* input of the permission decoding (SpecMode)
  permissions    \* its decoded nine booleans (SpecMode)

vars == <<pc, argPatterns, argFormat, outFile, outFile0, dirState, registered,
          tree, statFail, scanInvoked, scanReturned, records, statted,
          readErrLogged, log, renderInvoked, renderArg, rendered,
          writeInvoked, opened, yamlInstalled, exitStatus, crashed,
          st_mode, permissions>>

(* --------------------------- PermissionReader -------------------------- *)

\* stat.filemode(st_mode): the type character, then rwx per role, with the
\* set-uid / set-gid / sticky variants of the execute character.
FileMode(mode) ==
  LET typ == IF BitSet(mode, S_IFREG) /\ ~BitSet(mode, S_IFDIR) THEN "-"
             ELSE IF BitSet(mode, S_IFDIR) /\ ~BitSet(mode, S_IFREG) THEN "d"
             ELSE "?"
      rw(mask, ch) == IF BitSet(mode, mask) THEN ch ELSE "-"
      ex(mask, special, lo, up) ==
        IF BitSet(mode, special)
          THEN (IF BitSet(mode, mask) THEN lo ELSE up)
          ELSE (IF BitSet(mode, mask) THEN "x" ELSE "-")
  IN << typ,
        rw(S_IRUSR, "r"), rw(S_IWUSR, "w"), ex(S_IXUSR, S_ISUID, "s", "S"),
        rw(S_IRGRP, "r"), rw(S_IWGRP, "w"), ex(S_IXGRP, S_ISGID, "s", "S"),
        rw(S_IROTH, "r"), rw(S_IWOTH, "w"), ex(S_IXOTH, S_ISVTX, "t", "T") >>

\* Mutant: the group write bit is tested with the owner's mask.
get_file_permissions_WrongMask(file, fails) ==
  IF file.path \in fails
    THEN [ok |-> FALSE]
    ELSE [ok |-> TRUE,
          value |->
            [user  |-> [read    |-> BitSet(file.st_mode, S_IRUSR),
                        write   |-> BitSet(file.st_mode, S_IWUSR),
                        execute |-> BitSet(file.st_mode, S_IXUSR)],
             group |-> [read    |-> BitSet(file.st_mode, S_IRGRP),
                        write   |-> BitSet(file.st_mode, S_IWUSR),
                        execute |-> BitSet(file.st_mode, S_IXGRP)],
             other |-> [read    |-> BitSet(file.st_mode, S_IROTH),
                        write   |-> BitSet(file.st_mode, S_IWOTH),
                        execute |-> BitSet(file.st_mode, S_IXOTH)],
             owner     |-> file.st_uid,
             group_id  |-> file.st_gid,
             mode      |-> FileMode(file.st_mode),
             file_size |-> file.st_size]]

\* get_file_permissions(file_path): os.stat and the decoding of its result;
\* [ok |-> FALSE] is the None returned when os.stat raises OSError.
get_file_permissions(file, fails) ==
  IF file.path \in fails
    THEN [ok |-> FALSE]
    ELSE [ok |-> TRUE,
          value |->
            [user  |-> [read    |-> BitSet(file.st_mode, S_IRUSR),
                        write   |-> BitSet(file.st_mode, S_IWUSR),
                        execute |-> BitSet(file.st_mode, S_IXUSR)],
             group |-> [read    |-> BitSet(file.st_mode, S_IRGRP),
                        write   |-> BitSet(file.st_mode, S_IWGRP),
                        execute |-> BitSet(file.st_mode, S_IXGRP)],
             other |-> [read    |-> BitSet(file.st_mode, S_IROTH),
                        write   |-> BitSet(file.st_mode, S_IWOTH),
                        execute |-> BitSet(file.st_mode, S_IXOTH)],
             owner     |-> file.st_uid,
             group_id  |-> file.st_gid,
             mode      |-> FileMode(file.st_mode),
             file_size |-> file.st_size]]

(* ---------------------------- PatternMatcher --------------------------- *)

\* One path segment against one glob: `*` and `?` never cross a "/".
RECURSIVE GlobMatch(_, _)
GlobMatch(glob, seg) ==
  IF glob = <<>> THEN seg = <<>>
  ELSE IF Head(glob) = "*"
    THEN GlobMatch(Tail(glob), seg)
         \/ (seg # <<>> /\ Head(seg) # "/" /\ GlobMatch(glob, Tail(seg)))
  ELSE IF Head(glob) = "?"
    THEN seg # <<>> /\ Head(seg) # "/" /\ GlobMatch(Tail(glob), Tail(seg))
  ELSE seg # <<>> /\ Head(seg) = Head(glob) /\ GlobMatch(Tail(glob), Tail(seg))

\* The "/"-separated segments of a relative path.
RECURSIVE Segments(_, _)
Segments(path, cur) ==
  IF path = <<>> THEN <<cur>>
  ELSE IF Head(path) = "/" THEN <<cur>> \o Segments(Tail(path), <<>>)
  ELSE Segments(Tail(path), Append(cur, Head(path)))

\* A pattern as pathspec compiles it: `include` is FALSE for a leading "!".
IsNegation(pattern) == pattern # <<>> /\ Head(pattern) = "!"
PatternGlob(pattern) == IF IsNegation(pattern) THEN Tail(pattern) ELSE pattern

\* A slash-free gitignore pattern matches a path when it matches the name of
\* the file or of any directory above it.
PatternMatches(pattern, path) ==
  LET segs == Segments(path, <<>>)
  IN \E i \in 1..Len(segs) : GlobMatch(PatternGlob(pattern), segs[i])

\* spec.match_file(relative_path): every pattern is tried in order and the
\* last one that matches decides.
RECURSIVE MatchFrom(_, _, _)
MatchFrom(patterns, path, matched) ==
  IF patterns = <<>> THEN matched
  ELSE MatchFrom(Tail(patterns), path,
                 IF PatternMatches(Head(patterns), path)
                   THEN ~IsNegation(Head(patterns))
                   ELSE matched)

match_file(patterns, path) == MatchFrom(patterns, path, FALSE)

(* --------------------------- DirectoryScanner -------------------------- *)

\* Mutant: the metadata is read before the exclusion test.
VisitFile_StatFirst(file, patterns, fails, acc) ==
  LET perms == get_file_permissions(file, fails)
      acc1  == [acc EXCEPT !.statted = @ \cup {file.path},
                           !.readErr = IF perms.ok THEN @ ELSE @ \cup {file.path}]
  IN IF match_file(patterns, file.path)
       THEN acc1
       ELSE IF perms.ok
         THEN [acc1 EXCEPT !.records =
                 Append(@, [file_path |-> file.path, permissions |-> perms.value])]
         ELSE acc1

\* Mutant: the result of a failed read is appended like any other.
VisitFile_KeepFailed(file, patterns, fails, acc) ==
  IF match_file(patterns, file.path)
    THEN acc
    ELSE LET perms == get_file_permissions(file, fails)
         IN [acc EXCEPT
               !.statted = @ \cup {file.path},
               !.readErr = IF perms.ok THEN @ ELSE @ \cup {file.path},
               !.records = Append(@, [file_path |-> file.path, permissions |-> perms])]

\* The body of the loop over the files of the walk (lines 121-133).
VisitFile(file, patterns, fails, acc) ==
  IF match_file(patterns, file.path)
    THEN acc
    ELSE LET perms == get_file_permissions(file, fails)
         IN [acc EXCEPT
               !.statted = @ \cup {file.path},
               !.readErr = IF perms.ok THEN @ ELSE @ \cup {file.path},
               !.records = IF perms.ok
                             THEN Append(@, [file_path   |-> file.path,
                                             permissions |-> perms.value])
                             ELSE @]

RECURSIVE WalkFiles(_, _, _, _)
WalkFiles(files, patterns, fails, acc) ==
  IF files = <<>> THEN acc
  ELSE WalkFiles(Tail(files), patterns, fails,
                 VisitFile(Head(files), patterns, fails, acc))

\* analyze_directory_permissions once the matcher is built: os.walk ignores
\* the error of a root it cannot list and yields nothing, so the loop body
\* never runs and the empty list is returned by line 137.
analyze_directory_permissions(listable, files, patterns, fails) ==
  WalkFiles(IF listable THEN files ELSE <<>>, patterns, fails,
            [records |-> <<>>, statted |-> {}, readErr |-> {}])

(* ------------------------------ OutputWriter --------------------------- *)

\* The canonical serialization json.dump / yaml.dump streams to the file.
NewContent(format) == [i \in 1..NChunks |-> <<format, i>>]
OldContent == [i \in 1..NChunks |-> <<"old", i>>]
Absent == [exists |-> FALSE, data |-> <<>>]
Existing(data) == [exists |-> TRUE, data |-> data]

\* Outcomes of the I/O of one write: 0 the open fails, k in 1..NChunks the
\* write of chunk k fails, NChunks + 1 nothing fails.
IoOutcomes == 0..(NChunks + 1)

\* `with open(output_file, "w") as f: dump(data, f, ...)`
OpenAndDump(file, format, ioFailAt) ==
  IF ioFailAt = 0
    THEN [file |-> file, log |-> {"IOFailure"}, opened |-> FALSE]
    ELSE IF ioFailAt <= NChunks
      THEN [file   |-> Existing(SubSeq(NewContent(format), 1, ioFailAt - 1)),
            log    |-> {"IOFailure"},
            opened |-> TRUE]
      ELSE [file   |-> Existing(NewContent(format)),
            log    |-> {"WroteOutput"},
            opened |-> TRUE]

\* json.loads / yaml.safe_load on the rendered text: a value, the parser's
\* own decode error, or another exception (which line 211 catches).
ParseOutcome(text) == IF text.kind = "text" THEN text.parse ELSE "otherError"

ValidateAndDump(file, text, format, ioFailAt) ==
  IF ParseOutcome(text) = "decodeError"
    THEN [file |-> file, log |-> {"InvalidPayload"}, opened |-> FALSE]
    ELSE IF ParseOutcome(text) = "otherError"
      THEN [file |-> file, log |-> {"Unexpected"}, opened |-> FALSE]
      ELSE OpenAndDump(file, format, ioFailAt)

\* Mutant: the file is opened (and so truncated) before the text is parsed.
write_output_OpenFirst(file, text, format, yamlOk, ioFailAt) ==
  IF format = "yaml" /\ ~yamlOk
    THEN [file |-> file, log |-> {"MissingBackend"}, opened |-> FALSE]
    ELSE IF ioFailAt = 0
      THEN [file |-> file, log |-> {"IOFailure"}, opened |-> FALSE]
      ELSE IF ParseOutcome(text) = "value"
        THEN OpenAndDump(file, format, ioFailAt)
        ELSE [file   |-> Existing(<<>>),
              log    |-> IF ParseOutcome(text) = "decodeError"
                           THEN {"InvalidPayload"} ELSE {"Unexpected"},
              opened |-> TRUE]

\* write_output(output_file, data, output_format)
write_output(file, text, format, yamlOk, ioFailAt) ==
  IF format = "json"
    THEN ValidateAndDump(file, text, format, ioFailAt)
    ELSE IF format = "yaml"
      THEN IF ~yamlOk
             THEN [file |-> file, log |-> {"MissingBackend"}, opened |-> FALSE]
             ELSE ValidateAndDump(file, text, format, ioFailAt)
      ELSE [file |-> file, log |-> {"InvalidFormat"}, opened |-> FALSE]

(* ------------------------------- inputs -------------------------------- *)

Min(a, b) == IF a < b THEN a ELSE b

\* The files of the source directory, in the order os.walk yields them
\* (the files of the root, then those of its sub-directories).
AllFiles ==
  << [path |-> <<"a", ".", "l", "o", "g">>,
      st_mode |-> S_IFREG + S_IRUSR + S_IWUSR + S_IRGRP + S_IROTH,
      st_uid |-> 1000, st_gid |-> 1000, st_size |-> 10],
     [path |-> <<"i", "m", "p", "o", "r", "t", "a", "n", "t", ".", "l", "o", "g">>,
      st_mode |-> S_IFREG + S_IRUSR + S_IWUSR,
      st_uid |-> 0, st_gid |-> 0, st_size |-> 20],
     [path |-> <<"b", ".", "t", "x", "t">>,
      st_mode |-> S_IFREG + S_IRUSR + S_IWUSR + S_IRGRP + S_IWGRP + S_IROTH,
      st_uid |-> 1000, st_gid |-> 100, st_size |-> 0],
     [path |-> <<"s", "u", "b", "/", "b", ".", "s", "h">>,
      st_mode |-> S_IFREG + S_IRUSR + S_IWUSR + S_IXUSR + S_IRGRP + S_IXGRP
                  + S_IROTH + S_IXOTH,
      st_uid |-> 1000, st_gid |-> 1000, st_size |-> 30],
     [path |-> <<"s", "u", "b", "/", "c", ".", "l", "o", "g">>,
      st_mode |-> S_IFREG + S_ISUID + S_IRUSR + S_IXUSR,
      st_uid |-> 0, st_gid |-> 1000, st_size |-> 40] >>

Trees == { SubSeq(AllFiles, 1, n) : n \in 0..Min(MaxFiles, Len(AllFiles)) }
PathsOf(files) == { files[i].path : i \in 1..Len(files) }

\* The --exclude-patterns the runs are given.
PatStarLog == <<"*", ".", "l", "o", "g">>
PatNotImportant ==
  <<"!", "i", "m", "p", "o", "r", "t", "a", "n", "t", ".", "l", "o", "g">>
PatAnyOneLetter == <<"?", ".", "*">>
PatternUniverse == {PatStarLog, PatNotImportant, PatAnyOneLetter}
PatternLists ==
  UNION { [1..n -> PatternUniverse] : n \in 0..MaxPatterns }

Formats == {"json", "yaml"}
DirStates == {"missing", "unlistable", "ok"}
ParseOutcomes == {"value", "decodeError", "otherError"}

\* Type and special bits set on top of the nine permission bits.
HighBits ==
  << 0, S_IFREG, S_IFDIR, S_IFREG + S_ISUID, S_IFDIR + S_ISVTX + S_ISGID >>
ModeInputs ==
  { lo + HighBits[h] : lo \in 0..511,
                       h \in 1..Min(MaxHighBits, Len(HighBits)) }

NoPermissions ==
  [user  |-> [read |-> FALSE, write |-> FALSE, execute |-> FALSE],
   group |-> [read |-> FALSE, write |-> FALSE, execute |-> FALSE],
   other |-> [read |-> FALSE, write |-> FALSE, execute |-> FALSE]]

(* ---------------------------- initial states --------------------------- *)

Idle ==
  /\ dirState = "unknown"
  /\ registered = FALSE
  /\ tree = <<>>
  /\ statFail = {}
  /\ scanInvoked = FALSE
  /\ scanReturned = FALSE
  /\ records = <<>>
  /\ statted = {}
  /\ readErrLogged = {}
  /\ log = {}
  /\ renderInvoked = FALSE
  /\ renderArg = <<>>
  /\ rendered = [kind |-> "unset"]
  /\ writeInvoked = FALSE
  /\ opened = FALSE
  /\ yamlInstalled = FALSE
  /\ exitStatus = -1
  /\ crashed = FALSE
  /\ permissions = NoPermissions

Init ==
  /\ pc = "start"
  /\ argPatterns \in PatternLists
  /\ argFormat \in Formats
  /\ outFile \in {Absent, Existing(OldContent)}
  /\ outFile0 = outFile
  /\ st_mode = 0
  /\ Idle

(* --------------------------------- main -------------------------------- *)

\* Lines 222-229: the input validation.
MainValidate ==
  /\ pc = "start"
  /\ \E d \in DirStates, templateIsFile \in BOOLEAN :
       /\ dirState' = d
       /\ IF d = "missing"
            THEN /\ log' = log \cup {"SourceDirMissing"}
                 /\ pc' = "exited"
                 /\ exitStatus' = 1
            ELSE IF ~templateIsFile
              THEN /\ log' = log \cup {"TemplateMissing"}
                   /\ pc' = "exited"
                   /\ exitStatus' = 1
              ELSE /\ log' = log
                   /\ pc' = "scan"
                   /\ exitStatus' = exitStatus
  /\ UNCHANGED <<argPatterns, argFormat, outFile, outFile0, registered, tree,
                 statFail, scanInvoked, scanReturned, records, statted,
                 readErrLogged, renderInvoked, renderArg, rendered,
                 writeInvoked, opened, yamlInstalled, crashed, st_mode,
                 permissions>>

\* Mutant: the exit of line 239 is not commented out.
MainScan_ExitOnEmpty ==
  /\ pc = "scan"
  /\ scanInvoked' = TRUE
  /\ \E reg \in BOOLEAN, files \in Trees :
       \E fails \in SUBSET PathsOf(files) :
         /\ registered' = reg
         /\ IF ~reg
              THEN /\ crashed' = TRUE
                   /\ pc' = "exited"
                   /\ exitStatus' = 1
                   /\ UNCHANGED <<tree, statFail, scanReturned, records,
                                  statted, readErrLogged, log>>
              ELSE LET res == analyze_directory_permissions(
                                dirState = "ok", files, argPatterns, fails)
                   IN /\ tree' = files
                      /\ statFail' = fails
                      /\ scanReturned' = TRUE
                      /\ records' = res.records
                      /\ statted' = res.statted
                      /\ readErrLogged' = res.readErr
                      /\ log' = log
                           \cup (IF res.readErr # {} THEN {"ReadError"} ELSE {})
                           \cup (IF res.records = <<>> THEN {"NoData"} ELSE {})
                      /\ pc' = IF res.records = <<>> THEN "exited" ELSE "render"
                      /\ exitStatus' = IF res.records = <<>> THEN 0 ELSE exitStatus
                      /\ crashed' = crashed
  /\ UNCHANGED <<argPatterns, argFormat, outFile, outFile0, dirState,
                 renderInvoked, renderArg, rendered, writeInvoked, opened,
                 yamlInstalled, st_mode, permissions>>

\* Lines 232-239: the call of analyze_directory_permissions and the warning
\* about an empty result. Building the matcher (line 118) asks pathspec for
\* the pattern factory named "gitwildcard"; when pathspec has no factory of
\* that name the lookup raises KeyError, which `except OSError` does not
\* catch, and the run ends in that uncaught exception.
MainScan ==
  /\ pc = "scan"
  /\ scanInvoked' = TRUE
  /\ \E reg \in BOOLEAN, files \in Trees :
       \E fails \in SUBSET PathsOf(files) :
         /\ registered' = reg
         /\ IF ~reg
              THEN /\ crashed' = TRUE
                   /\ pc' = "exited"
                   /\ exitStatus' = 1
                   /\ UNCHANGED <<tree, statFail, scanReturned, records,
                                  statted, readErrLogged, log>>
              ELSE LET res == analyze_directory_permissions(
                                dirState = "ok", files, argPatterns, fails)
                   IN /\ tree' = files
                      /\ statFail' = fails
                      /\ scanReturned' = TRUE
                      /\ records' = res.records
                      /\ statted' = res.statted
                      /\ readErrLogged' = res.readErr
                      /\ log' = log
                           \cup (IF res.readErr # {} THEN {"ReadError"} ELSE {})
                           \cup (IF res.records = <<>> THEN {"NoData"} ELSE {})
                      /\ pc' = "render"
                      /\ exitStatus' = exitStatus
                      /\ crashed' = crashed
  /\ UNCHANGED <<argPatterns, argFormat, outFile, outFile0, dirState,
                 renderInvoked, renderArg, rendered, writeInvoked, opened,
                 yamlInstalled, st_mode, permissions>>

\* Mutant: a failed render does not end the run.
MainRender_NoExit ==
  /\ pc = "render"
  /\ renderInvoked' = TRUE
  /\ renderArg' = records
  /\ \E outcome \in {"templateError"} \cup ParseOutcomes :
       IF outcome = "templateError"
         THEN /\ rendered' = [kind |-> "None"]
              /\ log' = log \cup {"RenderError"}
              /\ pc' = "write"
              /\ exitStatus' = exitStatus
         ELSE /\ rendered' = [kind |-> "text", parse |-> outcome]
              /\ log' = log
              /\ pc' = "write"
              /\ exitStatus' = exitStatus
  /\ UNCHANGED <<argPatterns, argFormat, outFile, outFile0, dirState,
                 registered, tree, statFail, scanInvoked, scanReturned,
                 records, statted, readErrLogged, writeInvoked, opened,
                 yamlInstalled, crashed, st_mode, permissions>>

\* Lines 241-244: render_template(args.template_file, permissions_data) and
\* the exit when it returned None. The text jinja2 produces either parses in
\* the declared format or makes the parser raise.
MainRender ==
  /\ pc = "render"
  /\ renderInvoked' = TRUE
  /\ renderArg' = records
  /\ \E outcome \in {"templateError"} \cup ParseOutcomes :
       IF outcome = "templateError"
         THEN /\ rendered' = [kind |-> "None"]
              /\ log' = log \cup {"RenderError"}
              /\ pc' = "exited"
              /\ exitStatus' = 1
         ELSE /\ rendered' = [kind |-> "text", parse |-> outcome]
              /\ log' = log
              /\ pc' = "write"
              /\ exitStatus' = exitStatus
  /\ UNCHANGED <<argPatterns, argFormat, outFile, outFile0, dirState,
                 registered, tree, statFail, scanInvoked, scanReturned,
                 records, statted, readErrLogged, writeInvoked, opened,
                 yamlInstalled, crashed, st_mode, permissions>>

\* Line 246: write_output(...), after which main returns and the process
\* exits with status 0 whatever write_output logged.
MainWrite ==
  /\ pc = "write"
  /\ writeInvoked' = TRUE
  /\ \E yamlOk \in (IF argFormat = "yaml" THEN BOOLEAN ELSE {yamlInstalled}),
        ioFailAt \in IoOutcomes :
       LET res == write_output(outFile, rendered, argFormat, yamlOk, ioFailAt)
       IN /\ yamlInstalled' = yamlOk
          /\ outFile' = res.file
          /\ opened' = res.opened
          /\ log' = log \cup res.log
  /\ pc' = "exited"
  /\ exitStatus' = 0
  /\ UNCHANGED <<argPatterns, argFormat, outFile0, dirState, registered, tree,
                 statFail, scanInvoked, scanReturned, records, statted,
                 readErrLogged, renderInvoked, renderArg, rendered, crashed,
                 st_mode, permissions>>

Next == MainValidate \/ MainScan \/ MainRender \/ MainWrite

Spec == Init /\ [][Next]_vars

(* ------------------- the permission decoding on its own ---------------- *)

InitMode ==
  /\ pc = "decode"
  /\ st_mode \in ModeInputs
  /\ argPatterns = <<>>
  /\ argFormat = "json"
  /\ outFile = Absent
  /\ outFile0 = Absent
  /\ Idle

\* get_file_permissions on a file whose os.stat answers st_mode.
DecodeMode ==
  /\ pc = "decode"
  /\ LET res == get_file_permissions(
                  [path |-> <<"f">>, st_mode |-> st_mode, st_uid |-> 0,
                   st_gid |-> 0, st_size |-> 0], {})
     IN permissions' = [user  |-> res.value.user,
                        group |-> res.value.group,
                        other |-> res.value.other]
  /\ pc' = "decoded"
  /\ UNCHANGED <<argPatterns, argFormat, outFile, outFile0, dirState,
                 registered, tree, statFail, scanInvoked, scanReturned,
                 records, statted, readErrLogged, log, renderInvoked,
                 renderArg, rendered, writeInvoked, opened, yamlInstalled,
                 exitStatus, crashed, st_mode>>

NextMode == DecodeMode

SpecMode == InitMode /\ [][NextMode]_vars

(* ------------------------------- claims -------------------------------- *)

NewFile == Existing(NewContent(argFormat))
WriteReturned == pc = "exited" /\ writeInvoked
ParserRejects == rendered.kind = "text" /\ rendered.parse = "decodeError"
Excluded(path) == match_file(argPatterns, path)

C2_SuccessMeansWritten ==
  (pc = "exited" /\ exitStatus = 0)
    => (outFile = NewFile /\ "WroteOutput" \in log)

\* C3: once render_template has failed, write_output is never called, the
\* output file is never opened and keeps its content, and the run is over
\* with a non-zero status.
C3_RenderFailureAborts ==
  (renderInvoked /\ rendered.kind = "None")
    => /\ ~writeInvoked
       /\ ~opened
       /\ outFile = outFile0
       /\ pc = "exited"
       /\ exitStatus # 0

C3_Witness ==
  /\ renderInvoked
  /\ rendered.kind = "None"
  /\ "RenderError" \in log
  /\ outFile0.exists
  /\ records # <<>>

\* C4: after write_output the output file holds either its complete previous
\* content or the complete new serialization.
C4_AllOrNothing ==
  writeInvoked => (outFile = outFile0 \/ outFile = NewFile)

\* C5: get_file_permissions is never called on a file the matcher excludes,
\* and no read failure is ever logged for such a file.
C5_ExcludedNeverRead ==
  \A i \in 1..Len(tree) :
    Excluded(tree[i].path)
      => (tree[i].path \notin statted /\ tree[i].path \notin readErrLogged)

C5_Witness ==
  /\ scanReturned
  /\ dirState = "ok"
  /\ \E i \in 1..Len(tree) :
       Excluded(tree[i].path) /\ tree[i].path \in statFail
  /\ statted # {}

\* Re-encoding of the nine booleans with the standard layout.
Encode(p) ==
    (IF p.user.read     THEN 256 ELSE 0) + (IF p.user.write     THEN 128 ELSE 0)
  + (IF p.user.execute  THEN 64  ELSE 0) + (IF p.group.read     THEN 32  ELSE 0)
  + (IF p.group.write   THEN 16  ELSE 0) + (IF p.group.execute  THEN 8   ELSE 0)
  + (IF p.other.read    THEN 4   ELSE 0) + (IF p.other.write    THEN 2   ELSE 0)
  + (IF p.other.execute THEN 1   ELSE 0)

CompleteRecord(r, file) ==
  /\ DOMAIN r = {"file_path", "permissions"}
  /\ r.file_path = file.path
  /\ DOMAIN r.permissions =
       {"user", "group", "other", "owner", "group_id", "mode", "file_size"}
  /\ Encode(r.permissions) = file.st_mode % 512
  /\ r.permissions.owner = file.st_uid
  /\ r.permissions.group_id = file.st_gid
  /\ r.permissions.file_size = file.st_size
  /\ Len(r.permissions.mode) = 10

\* C6: in the list a scan returns there is no record for a file whose
\* os.stat failed, every record is a complete one, and every file that is
\* not excluded and whose os.stat succeeded has its complete record, also
\* when it was visited after a failing file; each failure was logged.
C6_ReadFailureNonFatal ==
  (scanReturned /\ dirState = "ok")
    => /\ \A i \in 1..Len(tree) :
            tree[i].path \in statFail
              => \A j \in 1..Len(records) : records[j].file_path # tree[i].path
       /\ \A j \in 1..Len(records) :
            \E i \in 1..Len(tree) : CompleteRecord(records[j], tree[i])
       /\ \A i \in 1..Len(tree) :
            (~Excluded(tree[i].path) /\ tree[i].path \notin statFail)
              => \E j \in 1..Len(records) : CompleteRecord(records[j], tree[i])
       /\ readErrLogged = { p \in statFail : ~Excluded(p) }
       /\ ~crashed

C6_Witness ==
  /\ scanReturned
  /\ dirState = "ok"
  /\ \E i \in 1..Len(tree), k \in 1..Len(tree) :
       /\ i < k
       /\ tree[i].path \in readErrLogged
       /\ \E j \in 1..Len(records) : CompleteRecord(records[j], tree[k])

\* C7: a scan whose root cannot be listed returns no records and is not
\* taken for a successful scan: the pipeline does not go on to render.
C7_BadRootIsScanError ==
  (scanReturned /\ dirState = "unlistable")
    => (records = <<>> /\ ~renderInvoked)

\* C8: every scan of a listable root returns, and the paths of its records
\* are exactly the files that the matcher does not exclude and whose
\* metadata read succeeds.
C8_RecordSet ==
  (scanInvoked /\ dirState = "ok")
    => /\ scanReturned
       /\ { records[j].file_path : j \in 1..Len(records) }
            = { p \in PathsOf(tree) : ~Excluded(p) /\ p \notin statFail }

\* The same for the scans that do return (pathspec resolved the factory).
RecordSetOfReturnedScan ==
  (scanReturned /\ dirState = "ok")
    => { records[j].file_path : j \in 1..Len(records) }
         = { p \in PathsOf(tree) : ~Excluded(p) /\ p \notin statFail }

\* The example of the specification, for the scans that do return.
RecordSetExample ==
  ( /\ scanReturned
    /\ dirState = "ok"
    /\ argPatterns = <<PatStarLog, PatNotImportant>>
    /\ tree = SubSeq(AllFiles, 1, 3)
    /\ statFail = {} )
    => { records[j].file_path : j \in 1..Len(records) }
         = { AllFiles[2].path, AllFiles[3].path }

C10_EmptyIsWarningOnly ==
  (scanReturned /\ records = <<>>)
    => /\ "NoData" \in log
       /\ renderInvoked => renderArg = <<>>
       /\ pc = "exited"
            => /\ renderInvoked
               /\ rendered.kind = "text" => (writeInvoked /\ exitStatus = 0)

C10_Witness ==
  /\ pc = "exited"
  /\ scanReturned
  /\ dirState = "ok"
  /\ tree # <<>>
  /\ records = <<>>
  /\ renderArg = <<>>
  /\ writeInvoked
  /\ "WroteOutput" \in log

====
